---- MODULE Spec2Model ----
(***************************************************************************)
(* Partitioned variational inference (PVI) round loop of GIPVA-PVI:        *)
(* the server schedulers (gi/server.py), the freezing protocol             *)
(* (experiments/utils/optimization.py) and the training loop               *)
(* (experiments/pvi_classification.py, experiments/mfvi_regression.py).    *)
(***************************************************************************)
EXTENDS Integers, Sequences, FiniteSets, TLC

VARIABLES
    pc,            \* position of main in the training script
    args,          \* parsed command line / configuration
    clients,       \* dict name -> Client (live, gradient-bearing parameters)
    server,        \* the Server object
    iter,          \* loop variable of "for iter in range(max_global_iters)"
    frozen_ts,     \* snapshot of the factors, per layer an ordered dict
    frozen_zs,     \* snapshot of the inducing sets, an ordered dict
    curr_clients,  \* list returned by next(server)
    idx,           \* loop variable of "for idx, curr_client in enumerate(...)"
    tmp_ts,        \* view of the factors handed to the active client
    tmp_zs,        \* view of the inducing sets handed to the active client
    client_iter,   \* loop variable of the local optimization loop
    key,           \* random state token
    cache,         \* model._cache: per layer the sampled weights and KL
    ps,            \* priors: ordered dict layer -> prior factor
    local,         \* minibatch and results of the last estimate_local_vfe
    calls,         \* history: the lists returned by next(server), in order
    turns          \* history: per client, number of local-optimization turns

vars == <<pc, args, clients, server, iter, frozen_ts, frozen_zs, curr_clients,
          idx, tmp_ts, tmp_zs, client_iter, key, cache, ps, local, calls, turns>>

-----------------------------------------------------------------------------
(* Bounds of the model.                                                    *)

MaxClients == 3
MaxGlobalIters == 2
MaxLocalIters == 2
NumLayers == 2
MaxBatchSize == 2
TrainSize == 6
MaxSteps == 1
MaxSamples == 2
MaxPartition == 7
MaxWindowIters == 4
MaxCalls == 7

Layers == 1..NumLayers

ServerTypes == {"synchronous", "sequential", "seq-sync"}
ClientTypes == {"GI_Client", "MFVI_Client"}

-----------------------------------------------------------------------------
(* Python's insertion-ordered dict, as a sequence of <<key, value>> pairs. *)

EmptyDict == <<>>

Keys(d) == [i \in 1..Len(d) |-> d[i][1]]

Values(d) == [i \in 1..Len(d) |-> d[i][2]]

KeySet(d) == {d[i][1] : i \in 1..Len(d)}

Has(d, k) == k \in KeySet(d)

Get(d, k) == d[CHOOSE i \in 1..Len(d) : d[i][1] = k][2]

Put(d, k, v) ==
    IF Has(d, k)
    THEN [i \in 1..Len(d) |-> IF d[i][1] = k THEN <<k, v>> ELSE d[i]]
    ELSE Append(d, <<k, v>>)

-----------------------------------------------------------------------------
(* Parameters.  A live parameter of a client holds a value <<owner, layer, *)
(* version>> (layer 0 is the inducing set z); a gradient step produces the *)
(* next version.  A dictionary entry is either a reference to the live,    *)
(* attached parameter object of a client or a detached copy of a value.    *)

InitValue(c, l) == <<c, l, 0>>

Stepped(v) == <<v[1], v[2], v[3] + 1>>

LiveT(c, l) == [live |-> TRUE, kind |-> "t", owner |-> c, layer |-> l]

LiveZ(c) == [live |-> TRUE, kind |-> "z", owner |-> c, layer |-> 0]

Detached(v) == [live |-> FALSE, val |-> v]

Deref(e) ==
    IF ~e.live THEN e.val
    ELSE IF e.kind = "z" THEN clients[e.owner].z
    ELSE clients[e.owner].t[e.layer]

\* tensor.detach().clone()
DetachClone(e) == Detached(Deref(e))

\* copy(t) of a NormalPseudoObservation: a copy whose parameters are detached
CopyFactor(e) == Detached(Deref(e))

IsGI(c) == clients[c].type = "GI_Client"

\* GI_Client(key, name, x, y, M, *dims) / MFVI_Client(key, name, x, y, *dims)
Client(name, type) ==
    IF type = "GI_Client"
    THEN [name |-> name, type |-> type,
          t |-> [l \in Layers |-> InitValue(name, l)],
          z |-> InitValue(name, 0)]
    ELSE [name |-> name, type |-> type,
          t |-> [l \in Layers |-> InitValue(name, l)]]

\* opt.step() on the optimizer built from curr_client.get_params(), followed
\* by curr_client.update_nz(): every parameter of the client gets a new value.
GradStep(c) ==
    IF c.type = "GI_Client"
    THEN [c EXCEPT !.t = [l \in Layers |-> Stepped(c.t[l])], !.z = Stepped(c.z)]
    ELSE [c EXCEPT !.t = [l \in Layers |-> Stepped(c.t[l])]]

-----------------------------------------------------------------------------
(* gi/server.py.  self.clients is the mapping name -> Client; the server   *)
(* record keeps its keys in mapping order, the Client objects themselves   *)
(* are the entries of the variable clients.                                *)

\* variant of Server.__init__ with a 1-based round index
Server_init_OneBased(names) ==
    [clients            |-> names,
     log                |-> EmptyDict,
     communications     |-> 0,
     max_iters          |-> -1,
     curr_iter          |-> 1,
     optimized_clients  |-> {}]

\* Server.__init__
Server_init(names) ==
    [clients            |-> names,
     log                |-> EmptyDict,
     communications     |-> 0,
     max_iters          |-> -1,
     curr_iter          |-> 0,
     optimized_clients  |-> {}]

\* variant of SynchronousServer.__init__ that scales the rounds by the clients
SynchronousServer_init_Scaled(names, iters) ==
    [name |-> "synchronous", max_iters |-> iters * Len(names)]
        @@ [clients |-> names, log |-> EmptyDict, communications |-> 0,
            curr_iter |-> 0, optimized_clients |-> {}]

\* SynchronousServer.__init__
SynchronousServer_init(names, iters) ==
    [name |-> "synchronous", max_iters |-> iters] @@ Server_init(names)

\* variant of SequentialServer.__init__ that does not scale the rounds
SequentialServer_init_Unscaled(names, iters) ==
    [name |-> "sequential", idx |-> 0, max_iters |-> iters]
        @@ [clients |-> names, log |-> EmptyDict, communications |-> 0,
            curr_iter |-> 0, optimized_clients |-> {}]

\* SequentialServer.__init__
SequentialServer_init(names, iters) ==
    [name |-> "sequential", idx |-> 0, max_iters |-> iters * Len(names)]
        @@ Server_init(names)

\* variant of NewServer.__init__ that takes the rounds from its argument
NewServer_init_Iters(names, iters) ==
    [name |-> "seq-sync", global_iter |-> 0, idx |-> 0,
     max_iters |-> iters]
        @@ [clients |-> names, log |-> EmptyDict, communications |-> 0,
            curr_iter |-> 0, optimized_clients |-> {}]

\* NewServer.__init__
NewServer_init(names, iters) ==
    [name |-> "seq-sync", global_iter |-> 0, idx |-> 0,
     max_iters |-> Len(names) + (Len(names) - 1)] @@ Server_init(names)

\* config.server_type(clients, model, args.global_iters)
ConstructServerOf(type, names, iters) ==
    CASE type = "synchronous" -> SynchronousServer_init(names, iters)
      [] type = "sequential"  -> SequentialServer_init(names, iters)
      [] type = "seq-sync"    -> NewServer_init(names, iters)

\* SequentialServer.current_client / NewServer.current_client
current_client(s) == s.clients[s.idx + 1]

\* variant of SynchronousServer.__next__ that counts one exchange pair per call
SynchronousServer_next_PerCall(s) ==
    [server |-> [s EXCEPT !.communications = @ + 2],
     ret    |-> s.clients]

\* SynchronousServer.__next__
SynchronousServer_next(s) ==
    [server |-> [s EXCEPT !.communications = @ + 2 * Len(s.clients)],
     ret    |-> s.clients]

\* variant of SequentialServer.__next__ that reads the client after advancing
SequentialServer_next_Advanced(s) ==
    [server |-> [s EXCEPT !.idx = (s.idx + 1) % Len(s.clients),
                          !.communications = @ + 2],
     ret    |-> <<s.clients[((s.idx + 1) % Len(s.clients)) + 1]>>]

\* variant of SequentialServer.__next__ that also counts a round
SequentialServer_next_CountsRound(s) ==
    [server |-> [s EXCEPT !.idx = (s.idx + 1) % Len(s.clients),
                          !.communications = @ + 2,
                          !.curr_iter = @ + 1],
     ret    |-> <<current_client(s)>>]

\* SequentialServer.__next__
SequentialServer_next(s) ==
    [server |-> [s EXCEPT !.idx = (s.idx + 1) % Len(s.clients),
                          !.communications = @ + 2],
     ret    |-> <<current_client(s)>>]

\* variant of NewServer.__next__ with an off-by-one phase test
NewServer_next_OffByOne(s) ==
    IF s.global_iter <= Len(s.clients)
    THEN [server |-> [s EXCEPT !.idx = (s.idx + 1) % Len(s.clients),
                               !.communications = @ + 2,
                               !.global_iter = @ + 1],
          ret    |-> <<current_client(s)>>]
    ELSE [server |-> s, ret |-> s.clients]

\* variant of NewServer.__next__ whose joint round restarts the turns
NewServer_next_Restart(s) ==
    IF s.global_iter < Len(s.clients)
    THEN [server |-> [s EXCEPT !.idx = (s.idx + 1) % Len(s.clients),
                               !.communications = @ + 2,
                               !.global_iter = @ + 1],
          ret    |-> <<current_client(s)>>]
    ELSE [server |-> [s EXCEPT !.global_iter = 0], ret |-> s.clients]

\* NewServer.__next__
NewServer_next(s) ==
    IF s.global_iter < Len(s.clients)
    THEN [server |-> [s EXCEPT !.idx = (s.idx + 1) % Len(s.clients),
                               !.communications = @ + 2,
                               !.global_iter = @ + 1],
          ret    |-> <<current_client(s)>>]
    ELSE [server |-> s, ret |-> s.clients]

\* next(server)
Server_next(s) ==
    CASE s.name = "synchronous" -> SynchronousServer_next(s)
      [] s.name = "sequential"  -> SequentialServer_next(s)
      [] s.name = "seq-sync"    -> NewServer_next(s)

\* self.log[k].append(v) on the defaultdict(list)
LogAppend(log, k, v) ==
    Put(log, k, Append(IF Has(log, k) THEN Get(log, k) ELSE <<>>, v))

\* model.performance_metrics(loader): scalars computed from the cached samples
performance_metrics(c, loader) ==
    [mll |-> <<loader, "mll", c[Len(c)][2].w.key>>,
     error |-> <<loader, "error", c[Len(c)][2].w.key>>]

\* variant of Server.evaluate_performance that logs the metrics only
evaluate_performance_MetricsOnly(s, c) ==
    LET train_metrics == performance_metrics(c, "train")
        test_metrics  == performance_metrics(c, "test")
        l3 == LogAppend(s.log, "train_mll", train_metrics.mll)
        l4 == LogAppend(l3, "train_error", train_metrics.error)
        l5 == LogAppend(l4, "test_mll", test_metrics.mll)
        l6 == LogAppend(l5, "test_error", test_metrics.error)
    IN  [s EXCEPT !.log = l6]

\* Server.evaluate_performance
evaluate_performance(s, c) ==
    LET train_metrics == performance_metrics(c, "train")
        test_metrics  == performance_metrics(c, "test")
        l1 == LogAppend(s.log, "communications", s.communications)
        l2 == LogAppend(l1, "iteration", s.curr_iter)
        l3 == LogAppend(l2, "train_mll", train_metrics.mll)
        l4 == LogAppend(l3, "train_error", train_metrics.error)
        l5 == LogAppend(l4, "test_mll", test_metrics.mll)
        l6 == LogAppend(l5, "test_error", test_metrics.error)
    IN  [s EXCEPT !.log = l6]

-----------------------------------------------------------------------------
(* experiments/utils/optimization.py: the freezing protocol.               *)

\* variant of collect_vp that stores the clients' own objects
collect_vp_Aliased(names) ==
    LET gi(c) == clients[c].type = "GI_Client"
        giNames == SelectSeq(names, gi)
    IN  [ts |-> [l \in Layers |->
                  [i \in 1..Len(names) |-> <<names[i], LiveT(names[i], l)>>]],
         zs |-> [i \in 1..Len(giNames) |-> <<giNames[i], LiveZ(giNames[i])>>]]

\* collect_vp(clients): (tmp_ts, tmp_zs)
collect_vp(names) ==
    LET gi(c) == clients[c].type = "GI_Client"
        giNames == SelectSeq(names, gi)
    IN  [ts |-> [l \in Layers |->
                  [i \in 1..Len(names) |->
                      <<names[i], CopyFactor(LiveT(names[i], l))>>]],
         zs |-> [i \in 1..Len(giNames) |->
                      <<giNames[i], DetachClone(LiveZ(giNames[i]))>>]]

\* variant of collect_frozen_vp that copies the snapshot entry of the current
\* client as well
collect_frozen_vp_AllFrozen(fts, fzs, c) ==
    [ts |-> [l \in DOMAIN fts |->
              [i \in 1..Len(fts[l]) |->
                  <<fts[l][i][1], CopyFactor(fts[l][i][2])>>]],
     zs |-> IF IsGI(c)
            THEN [i \in 1..Len(fzs) |-> <<fzs[i][1], DetachClone(fzs[i][2])>>]
            ELSE EmptyDict]

\* variant of collect_frozen_vp that takes every client's live factor
collect_frozen_vp_AllLive(fts, fzs, c) ==
    [ts |-> [l \in DOMAIN fts |->
              [i \in 1..Len(fts[l]) |->
                  <<fts[l][i][1], LiveT(fts[l][i][1], l)>>]],
     zs |-> IF IsGI(c)
            THEN [i \in 1..Len(fzs) |-> <<fzs[i][1], LiveZ(fzs[i][1])>>]
            ELSE EmptyDict]

\* variant of collect_frozen_vp that leaves the current client out of the
\* view
collect_frozen_vp_DropSelf(fts, fzs, c) ==
    LET other(p) == p[1] # c
    IN  [ts |-> [l \in DOMAIN fts |->
                  [i \in 1..Len(SelectSeq(fts[l], other)) |->
                      <<SelectSeq(fts[l], other)[i][1],
                        CopyFactor(SelectSeq(fts[l], other)[i][2])>>]],
         zs |-> IF IsGI(c)
                THEN [i \in 1..Len(SelectSeq(fzs, other)) |->
                         <<SelectSeq(fzs, other)[i][1],
                           DetachClone(SelectSeq(fzs, other)[i][2])>>]
                ELSE EmptyDict]

\* collect_frozen_vp(frozen_ts, frozen_zs, curr_client): (tmp_ts, tmp_zs)
collect_frozen_vp(fts, fzs, c) ==
    LET other(p) == p[1] # c
        others == SelectSeq(fzs, other)
    IN  [ts |-> [l \in DOMAIN fts |->
                  [i \in 1..Len(fts[l]) |->
                      IF fts[l][i][1] = c
                      THEN <<c, LiveT(c, l)>>
                      ELSE <<fts[l][i][1], CopyFactor(fts[l][i][2])>>]],
         zs |-> IF IsGI(c)
                THEN <<<<c, LiveZ(c)>>>> \o
                     [i \in 1..Len(others) |->
                         <<others[i][1], DetachClone(others[i][2])>>]
                ELSE EmptyDict]

\* variant of the first-round view built like the view of the later rounds
first_round_vp_Frozen(fts, c) == collect_frozen_vp(fts, frozen_zs, c)

\* the view of the first global round: the client's own factors only
first_round_vp(fts, c) ==
    [ts |-> [l \in DOMAIN fts |-> <<<<c, LiveT(c, l)>>>>],
     zs |-> IF IsGI(c) THEN <<<<c, LiveZ(c)>>>> ELSE EmptyDict]

-----------------------------------------------------------------------------
(* gi/gibnn.py: the posterior composition engine.  A distribution is the   *)
(* product of a prior and the factor contributions multiplied into it; a   *)
(* weight sample is identified by the key it was drawn with and the        *)
(* distribution it was drawn from.                                         *)

\* build_prior(*dims): one prior factor per layer, ordered from input to output
Prior(l) == [prior |-> <<"p", l>>, factors |-> <<>>]

build_prior(n) == [l \in 1..n |-> <<l, Prior(l)>>]

\* q * t: the natural-parameter sum, a new distribution
Combine(q, f) == [q EXCEPT !.factors = Append(@, f)]

\* _zs[client_name] at the input of the i-th layer: the client's inducing
\* inputs propagated through the i - 1 layers sampled so far
Inducing(zs, name, i) ==
    [client |-> name,
     z      |-> Deref(Get(zs, name)),
     live   |-> Get(zs, name).live,
     depth  |-> i - 1]

NoInducing == [client |-> -1, z |-> <<-1, 0, 0>>, live |-> FALSE, depth |-> 0]

\* t(z): the factor t evaluated at the inducing inputs z
Evaluated(t, z) == [t |-> Deref(t), live |-> t.live, at |-> z]

\* for t in ts[layer_name].values(): q *= t(_zs[client_name])
RECURSIVE Product(_, _, _, _)
Product(q, fs, z, j) ==
    IF j > Len(fs) THEN q
    ELSE Product(Combine(q, Evaluated(fs[j], z)), fs, z, j + 1)

\* variant of q.sample(key) that hands back the token it was given
Sample_Reuse(k, q) == [key |-> k, w |-> [key |-> k, q |-> q]]

\* q.sample(key): (key, w)
Sample(k, q) == [key |-> k + 1, w |-> [key |-> k, q |-> q]]

\* q.kl(p), summed over the output dimension
KL(q, p) == [q |-> q, p |-> p]

\* variant of the layer loop that keeps an entry the cache already holds
RECURSIVE GIBNN_layers_KeepOld(_, _, _, _, _, _)
GIBNN_layers_KeepOld(i, k, c, p, ts, zs) ==
    IF i > Len(p) THEN [key |-> k, cache |-> c, ps |-> p]
    ELSE LET layer_name == p[i][1]
             client_name == zs[Len(zs)][1]
             q  == Product(p[i][2], Values(ts[layer_name]),
                           Inducing(zs, client_name, i), 1)
             s  == Sample(k, q)
             c1 == IF Has(c, layer_name) THEN c
                   ELSE Put(c, layer_name, [w |-> s.w, kl |-> KL(q, p[i][2])])
         IN  GIBNN_layers_KeepOld(i + 1, s.key, c1, p, ts, zs)

\* variant of the layer loop in which q *= t updates the prior object in place
RECURSIVE GIBNN_layers_InPlace(_, _, _, _, _, _)
GIBNN_layers_InPlace(i, k, c, p, ts, zs) ==
    IF i > Len(p) THEN [key |-> k, cache |-> c, ps |-> p]
    ELSE LET layer_name == p[i][1]
             client_name == zs[Len(zs)][1]
             q  == Product(p[i][2], Values(ts[layer_name]),
                           Inducing(zs, client_name, i), 1)
             s  == Sample(k, q)
             c1 == Put(c, layer_name, [w |-> s.w, kl |-> KL(q, q)])
         IN  GIBNN_layers_InPlace(i + 1, s.key, c1, Put(p, layer_name, q), ts, zs)

\* GIBNN.sample_posterior, the loop over the layers of ps from the i-th on.
\* client_name is the loop variable of the loops over zs / _zs: when the
\* factors of a layer are multiplied it still names the last client of zs.
RECURSIVE GIBNN_layers(_, _, _, _, _, _)
GIBNN_layers(i, k, c, p, ts, zs) ==
    IF i > Len(p) THEN [key |-> k, cache |-> c, ps |-> p]
    ELSE LET layer_name == p[i][1]
             client_name == zs[Len(zs)][1]
             q  == Product(p[i][2], Values(ts[layer_name]),
                           Inducing(zs, client_name, i), 1)
             s  == Sample(k, q)
             c1 == Put(c, layer_name, [w |-> s.w, kl |-> KL(q, p[i][2])])
         IN  GIBNN_layers(i + 1, s.key, c1, p, ts, zs)

\* GIBNN.sample_posterior(key, ps, ts, zs): (key, self._cache)
GIBNN_sample_posterior(k, c, p, ts, zs) == GIBNN_layers(1, k, c, p, ts, zs)

\* for every client's entry of the layer: q *= t (no inducing inputs)
RECURSIVE MFVI_layers(_, _, _, _, _)
MFVI_layers(i, k, c, p, ts) ==
    IF i > Len(p) THEN [key |-> k, cache |-> c, ps |-> p]
    ELSE LET layer_name == p[i][1]
             q  == Product(p[i][2], Values(ts[layer_name]), NoInducing, 1)
             s  == Sample(k, q)
             c1 == Put(c, layer_name, [w |-> s.w, kl |-> KL(q, p[i][2])])
         IN  MFVI_layers(i + 1, s.key, c1, p, ts)

\* MFVI.sample_posterior(key, ps, ts): (key, self._cache)
MFVI_sample_posterior(k, c, p, ts) == MFVI_layers(1, k, c, p, ts)

\* model.sample_posterior of the model the script built
sample_posterior(type, k, c, p, ts, zs) ==
    IF type = "GI_Client"
    THEN GIBNN_sample_posterior(k, c, p, ts, zs)
    ELSE MFVI_sample_posterior(k, c, p, ts)

\* x = B.mm(x, w, tr_b=True) / x = self.nonlinearity(x)
MatMul(layer, w) == [op |-> "mm", layer |-> layer, w |-> w.key]

Nonlinearity(layer) == [op |-> "nonlinearity", layer |-> layer, w |-> -1]

\* variant of the propagate loop that applies the nonlinearity after every layer
RECURSIVE propagate_layers_AllNonlinear(_, _, _)
propagate_layers_AllNonlinear(c, ops, i) ==
    IF i > Len(c) THEN ops
    ELSE propagate_layers_AllNonlinear(c,
             ops \o <<MatMul(c[i][1], c[i][2].w), Nonlinearity(c[i][1])>>, i + 1)

\* GIBNN.propagate: for i, (layer_name, layer_dict) in enumerate(cache.items())
RECURSIVE propagate_layers(_, _, _)
propagate_layers(c, ops, i) ==
    IF i > Len(c) THEN ops
    ELSE LET x1 == Append(ops, MatMul(c[i][1], c[i][2].w))
             x2 == IF i - 1 < Len(c) - 1
                   THEN Append(x1, Nonlinearity(c[i][1]))
                   ELSE x1
         IN  propagate_layers(c, x2, i + 1)

\* GIBNN.propagate(x): the output, and the cache the call leaves behind
propagate(c, x) == [out |-> [x |-> x, ops |-> propagate_layers(c, <<>>, 1)],
                    cache |-> c]

\* model.get_total_kl(): the sum of the cached KL of every layer
get_total_kl(c) == [i \in 1..Len(c) |-> c[i][2].kl]

\* model.compute_ell(out, y)
compute_ell(out, y) == [out |-> out, y |-> y]

-----------------------------------------------------------------------------
(* experiments/utils/optimization.py: the local free energy.               *)

\* variant of estimate_local_vfe with the mini-batching estimator
\* ((N / len(x)) * exp_ll) - kl / len(x)
estimate_local_vfe_MiniBatch(type, k, c, x, y, p, ts, zs, N) ==
    LET sp     == sample_posterior(type, k, c, p, ts, zs)
        pr     == propagate(sp.cache, x)
        kl     == get_total_kl(pr.cache)
        exp_ll == compute_ell(pr.out, y)
    IN  [key |-> sp.key, cache |-> pr.cache, ps |-> sp.ps, out |-> pr.out,
         exp_ll |-> exp_ll, kl |-> kl,
         elbo |-> [ell |-> exp_ll, ell_num |-> N, ell_den |-> Len(x.inds),
                   kl |-> kl, kl_den |-> Len(x.inds)]]

\* estimate_local_vfe(key, model, client, x, y, ps, ts, zs, S, N);
\* elbo = (ell_num / ell_den) * ell - kl / kl_den
estimate_local_vfe(type, k, c, x, y, p, ts, zs, N) ==
    LET sp     == sample_posterior(type, k, c, p, ts, zs)
        pr     == propagate(sp.cache, x)
        kl     == get_total_kl(pr.cache)
        exp_ll == compute_ell(pr.out, y)
    IN  [key |-> sp.key, cache |-> pr.cache, ps |-> sp.ps, out |-> pr.out,
         exp_ll |-> exp_ll, kl |-> kl,
         elbo |-> [ell |-> exp_ll, ell_num |-> 1, ell_den |-> 1,
                   kl |-> kl, kl_den |-> N]]

\* variant of the index window without the wrap-around
minibatch_inds_NoWrap(b, i, n) == [j \in 1..b |-> (j - 1) + b * i]

\* inds = (B.range(batch_size) + batch_size * client_iter) % client_data_size
\* with b = batch_size, i = client_iter, n = client_data_size
minibatch_inds(b, i, n) == [j \in 1..b |-> ((j - 1) + b * i) % n]

\* min(a, b)
Min(a, b) == IF a <= b THEN a ELSE b

-----------------------------------------------------------------------------
(* experiments/pvi_classification.py (GI_Client) and                       *)
(* experiments/mfvi_regression.py (MFVI_Client): main.                     *)

ClientNames(n) == [i \in 1..n |-> i - 1]

NoServer == [name |-> "none"]

NoCache == EmptyDict

NoSnapshot == [l \in Layers |-> EmptyDict]

NoLocal == [client |-> -1]

\* split_data_clients(key, x_tr, y_tr, config.client_splits): the size of
\* the partition of client i when N points are split evenly over n clients
SplitSize(N, n, i) == (N \div n) + (IF i < N % n THEN 1 ELSE 0)

Init ==
    /\ pc = "build_clients"
    /\ args \in [num_clients  : 1..MaxClients,
                 global_iters : 0..MaxGlobalIters,
                 local_iters  : 0..MaxLocalIters,
                 batch_size   : 1..MaxBatchSize,
                 server_type  : ServerTypes,
                 client_type  : ClientTypes]
    /\ clients = <<>>
    /\ ps = EmptyDict
    /\ server = NoServer
    /\ iter = -1
    /\ frozen_ts = NoSnapshot
    /\ frozen_zs = EmptyDict
    /\ curr_clients = <<>>
    /\ idx = -1
    /\ tmp_ts = NoSnapshot
    /\ tmp_zs = EmptyDict
    /\ client_iter = -1
    /\ key = 0
    /\ cache = NoCache
    /\ local = NoLocal
    /\ calls = <<>>
    /\ turns = <<>>

\* ps = build_prior(*dims); clients[f"client{client_i}"] = _client, for
\* every split
BuildClients ==
    /\ pc = "build_clients"
    /\ ps' = build_prior(NumLayers)
    /\ clients' = [c \in 0..(args.num_clients - 1) |->
                      Client(c, args.client_type)
                          @@ [n |-> SplitSize(TrainSize, args.num_clients, c)]]
    /\ turns' = [c \in 0..(args.num_clients - 1) |-> 0]
    /\ pc' = "construct_server"
    /\ UNCHANGED <<args, server, iter, frozen_ts, frozen_zs, curr_clients, idx,
                   tmp_ts, tmp_zs, client_iter, key, cache, local, calls>>

\* server = config.server_type(clients, model, args.global_iters)
ConstructServer ==
    /\ pc = "construct_server"
    /\ server' = ConstructServerOf(args.server_type,
                                   ClientNames(args.num_clients),
                                   args.global_iters)
    /\ pc' = "loop"
    /\ UNCHANGED <<args, clients, ps, iter, frozen_ts, frozen_zs, curr_clients,
                   idx, tmp_ts, tmp_zs, client_iter, key, cache, local, calls,
                   turns>>

\* for iter in range(max_global_iters): server.curr_iter = iter
LoopHead ==
    /\ pc = "loop"
    /\ iter + 1 < server.max_iters
    /\ iter' = iter + 1
    /\ server' = [server EXCEPT !.curr_iter = iter + 1]
    /\ pc' = "collect"
    /\ UNCHANGED <<args, clients, ps, frozen_ts, frozen_zs, curr_clients, idx,
                   tmp_ts, tmp_zs, client_iter, key, cache, local, calls, turns>>

\* variant of the round's first step that collects in the first round only
Collect_FirstRound ==
    /\ pc = "collect"
    /\ LET vp == collect_vp(server.clients)
       IN  /\ frozen_ts' = IF iter = 0 THEN vp.ts ELSE frozen_ts
           /\ frozen_zs' = IF iter = 0 THEN vp.zs ELSE frozen_zs
    /\ pc' = "evaluate"
    /\ UNCHANGED <<args, clients, ps, server, iter, curr_clients, idx,
                   tmp_ts, tmp_zs, client_iter, key, cache, local, calls, turns>>

\* frozen_ts, frozen_zs = collect_vp(clients)
Collect ==
    /\ pc = "collect"
    /\ LET vp == collect_vp(server.clients)
       IN  /\ frozen_ts' = vp.ts
           /\ frozen_zs' = vp.zs
    /\ pc' = "evaluate"
    /\ UNCHANGED <<args, clients, ps, server, iter, curr_clients, idx,
                   tmp_ts, tmp_zs, client_iter, key, cache, local, calls, turns>>

\* key, _ = model.sample_posterior(key, ps, frozen_ts, frozen_zs, ...)
\* server.evaluate_performance()
Evaluate ==
    /\ pc = "evaluate"
    /\ LET sp == sample_posterior(args.client_type, key, cache, ps,
                                  frozen_ts, frozen_zs)
       IN  /\ key' = sp.key
           /\ cache' = sp.cache
           /\ ps' = sp.ps
           /\ server' = evaluate_performance(server, sp.cache)
    /\ pc' = "next"
    /\ UNCHANGED <<args, clients, iter, frozen_ts, frozen_zs, curr_clients, idx,
                   tmp_ts, tmp_zs, client_iter, local, calls, turns>>

\* curr_clients = next(server)
Schedule ==
    /\ pc = "next"
    /\ LET r == Server_next(server)
       IN  /\ server' = r.server
           /\ curr_clients' = r.ret
           /\ calls' = Append(calls, r.ret)
    /\ idx' = -1
    /\ pc' = "clients"
    /\ UNCHANGED <<args, clients, ps, iter, frozen_ts, frozen_zs,
                   tmp_ts, tmp_zs, client_iter, key, cache, local, turns>>

\* for idx, curr_client in enumerate(curr_clients): build the optimizer and
\* the posterior communicated to the client
ClientTurn ==
    /\ pc = "clients"
    /\ idx + 1 < Len(curr_clients)
    /\ idx' = idx + 1
    /\ LET curr_client == curr_clients[idx + 2]
           vp == IF iter = 0
                 THEN first_round_vp(frozen_ts, curr_client)
                 ELSE collect_frozen_vp(frozen_ts, frozen_zs, curr_client)
       IN  /\ tmp_ts' = vp.ts
           /\ tmp_zs' = vp.zs
           /\ turns' = [turns EXCEPT ![curr_client] = @ + 1]
    /\ client_iter' = -1
    /\ pc' = "local"
    /\ UNCHANGED <<args, clients, ps, server, iter, frozen_ts, frozen_zs,
                   curr_clients, key, cache, local, calls>>

\* the loop over curr_clients is exhausted: next global iteration
ClientsDone ==
    /\ pc = "clients"
    /\ ~(idx + 1 < Len(curr_clients))
    /\ pc' = "loop"
    /\ UNCHANGED <<args, clients, ps, server, iter, frozen_ts, frozen_zs,
                   curr_clients, idx, tmp_ts, tmp_zs, client_iter, key, cache,
                   local, calls, turns>>

\* variant of the optimizer step that updates every client of the server
opt_step_AllClients(cl, c) == [o \in DOMAIN cl |-> GradStep(cl[o])]

\* opt = construct_optimizer(args, config, curr_client, pvi=True);
\* loss.backward(); opt.step(); curr_client.update_nz(); opt.zero_grad()
opt_step(cl, c) == [cl EXCEPT ![c] = GradStep(@)]

\* for client_iter in range(max_local_iters): the minibatch,
\* estimate_local_vfe and the optimizer step
LocalStep ==
    /\ pc = "local"
    /\ client_iter + 1 < args.local_iters
    /\ client_iter' = client_iter + 1
    /\ LET curr_client == curr_clients[idx + 1]
           client_data_size == clients[curr_client].n
           batch_size == Min(client_data_size, Min(args.batch_size, TrainSize))
           inds == minibatch_inds(batch_size, client_iter + 1, client_data_size)
           x_mb == [client |-> curr_client, inds |-> inds]
           y_mb == [client |-> curr_client, inds |-> inds]
           r == estimate_local_vfe(args.client_type, key, cache, x_mb, y_mb,
                                   ps, tmp_ts, tmp_zs, client_data_size)
       IN  /\ key' = r.key
           /\ cache' = r.cache
           /\ ps' = r.ps
           /\ local' = [client |-> curr_client, inds |-> inds,
                        batch_size |-> batch_size, out |-> r.out,
                        elbo |-> r.elbo, exp_ll |-> r.exp_ll, kl |-> r.kl]
           /\ clients' = opt_step(clients, curr_client)
    /\ UNCHANGED <<pc, args, server, iter, frozen_ts, frozen_zs, curr_clients,
                   idx, tmp_ts, tmp_zs, calls, turns>>

\* variant of the local loop that can be left before it is exhausted
LocalDone_Early ==
    /\ pc = "local"
    /\ pc' = "clients"
    /\ UNCHANGED <<args, clients, ps, server, iter, frozen_ts, frozen_zs,
                   curr_clients, idx, tmp_ts, tmp_zs, client_iter, key, cache,
                   local, calls, turns>>

\* the local loop is exhausted: next client of curr_clients
LocalDone ==
    /\ pc = "local"
    /\ ~(client_iter + 1 < args.local_iters)
    /\ pc' = "clients"
    /\ UNCHANGED <<args, clients, ps, server, iter, frozen_ts, frozen_zs,
                   curr_clients, idx, tmp_ts, tmp_zs, client_iter, key, cache,
                   local, calls, turns>>

\* after the loop: server.curr_iter += 1, collect_vp, sample_posterior,
\* server.evaluate_performance()
PostTraining ==
    /\ pc = "loop"
    /\ ~(iter + 1 < server.max_iters)
    /\ LET vp == collect_vp(server.clients)
           sp == sample_posterior(args.client_type, key, cache, ps, vp.ts, vp.zs)
       IN  /\ frozen_ts' = vp.ts
           /\ frozen_zs' = vp.zs
           /\ key' = sp.key
           /\ cache' = sp.cache
           /\ ps' = sp.ps
           /\ server' = evaluate_performance(
                            [server EXCEPT !.curr_iter = @ + 1], sp.cache)
    /\ pc' = "done"
    /\ UNCHANGED <<args, clients, iter, curr_clients, idx, tmp_ts, tmp_zs,
                   client_iter, local, calls, turns>>

Next ==
    \/ BuildClients
    \/ ConstructServer
    \/ LoopHead
    \/ Collect
    \/ Evaluate
    \/ Schedule
    \/ ClientTurn
    \/ ClientsDone
    \/ LocalStep
    \/ LocalDone
    \/ PostTraining

Spec == Init /\ [][Next]_vars

-----------------------------------------------------------------------------
(* The freezing protocol on its own: collect_vp over any non-empty part of *)
(* the client mapping, optimizer steps of any client, and one call of      *)
(* collect_frozen_vp for any client of the mapping.                        *)

InitVP ==
    /\ pc = "vp"
    /\ \E n \in 1..MaxClients, type \in ClientTypes :
          /\ args = [num_clients |-> n, global_iters |-> 0, local_iters |-> 0,
                     batch_size |-> 1, server_type |-> "synchronous",
                     client_type |-> type]
          /\ clients = [c \in 0..(n - 1) |->
                           Client(c, type) @@ [n |-> SplitSize(TrainSize, n, c)]]
    /\ ps = build_prior(NumLayers)
    /\ server = NoServer
    /\ iter = -1
    /\ frozen_ts = NoSnapshot
    /\ frozen_zs = EmptyDict
    /\ curr_clients = <<>>
    /\ idx = -1
    /\ tmp_ts = NoSnapshot
    /\ tmp_zs = EmptyDict
    /\ client_iter = -1
    /\ key = 0
    /\ cache = NoCache
    /\ local = NoLocal
    /\ calls = <<>>
    /\ turns = <<>>

\* an optimizer step of client c
VP_Step(c) ==
    /\ pc \in {"vp", "vp_collected"}
    /\ clients[c].t[1][3] < MaxSteps
    /\ clients' = opt_step(clients, c)
    /\ UNCHANGED <<pc, args, ps, server, iter, frozen_ts, frozen_zs,
                   curr_clients, idx, tmp_ts, tmp_zs, client_iter, key, cache,
                   local, calls, turns>>

\* frozen_ts, frozen_zs = collect_vp(d), d the clients of the mapping in part
VP_Collect(part) ==
    /\ pc = "vp"
    /\ part # {}
    /\ LET in_part(c) == c \in part
           vp == collect_vp(SelectSeq(ClientNames(args.num_clients), in_part))
       IN  /\ frozen_ts' = vp.ts
           /\ frozen_zs' = vp.zs
    /\ pc' = "vp_collected"
    /\ UNCHANGED <<args, clients, ps, server, iter, curr_clients, idx, tmp_ts,
                   tmp_zs, client_iter, key, cache, local, calls, turns>>

\* tmp_ts, tmp_zs = collect_frozen_vp(frozen_ts, frozen_zs, c)
VP_Excluding(c) ==
    /\ pc = "vp_collected"
    /\ LET vp == collect_frozen_vp(frozen_ts, frozen_zs, c)
       IN  /\ tmp_ts' = vp.ts
           /\ tmp_zs' = vp.zs
    /\ curr_clients' = <<c>>
    /\ idx' = 0
    /\ pc' = "vp_view"
    /\ UNCHANGED <<args, clients, ps, server, iter, frozen_ts, frozen_zs,
                   client_iter, key, cache, local, calls, turns>>

NextVP ==
    \/ \E c \in DOMAIN clients : VP_Step(c)
    \/ \E part \in SUBSET (DOMAIN clients) : VP_Collect(part)
    \/ \E c \in DOMAIN clients : VP_Excluding(c)

SpecVP == InitVP /\ [][NextVP]_vars

-----------------------------------------------------------------------------
(* The model on its own: calls of sample_posterior on a view of the        *)
(* clients' factors, and any number of propagate calls between them.       *)

Inputs == {"x_train", "x_test"}

InitBNN ==
    /\ pc = "bnn"
    /\ \E n \in 1..MaxClients, type \in ClientTypes :
          /\ args = [num_clients |-> n, global_iters |-> 0, local_iters |-> 0,
                     batch_size |-> 1, server_type |-> "synchronous",
                     client_type |-> type]
          /\ clients = [c \in 0..(n - 1) |->
                           Client(c, type) @@ [n |-> SplitSize(TrainSize, n, c)]]
          /\ \E view \in {collect_vp(ClientNames(n))} \cup
                         {collect_frozen_vp(collect_vp(ClientNames(n)).ts,
                                            collect_vp(ClientNames(n)).zs, c) :
                              c \in 0..(n - 1)} :
                /\ tmp_ts = view.ts
                /\ tmp_zs = view.zs
    /\ ps = build_prior(NumLayers)
    /\ server = NoServer
    /\ iter = -1
    /\ frozen_ts = NoSnapshot
    /\ frozen_zs = EmptyDict
    /\ curr_clients = <<>>
    /\ idx = -1
    /\ client_iter = -1
    /\ key = 0
    /\ cache = NoCache
    /\ local = NoLocal
    /\ calls = <<>>
    /\ turns = <<>>

\* key, _ = model.sample_posterior(key, ps, ts, zs)
BNN_Sample ==
    /\ pc \in {"bnn", "bnn_sampled", "bnn_propagated"}
    /\ key < MaxSamples * NumLayers
    /\ LET sp == sample_posterior(args.client_type, key, cache, ps,
                                  tmp_ts, tmp_zs)
       IN  /\ key' = sp.key
           /\ cache' = sp.cache
           /\ ps' = sp.ps
    /\ pc' = "bnn_sampled"
    /\ UNCHANGED <<args, clients, server, iter, frozen_ts, frozen_zs,
                   curr_clients, idx, tmp_ts, tmp_zs, client_iter, local,
                   calls, turns>>

\* out = model.propagate(x)
BNN_Propagate(x) ==
    /\ pc \in {"bnn_sampled", "bnn_propagated"}
    /\ LET pr == propagate(cache, x)
       IN  /\ cache' = pr.cache
           /\ local' = [client |-> -1, out |-> pr.out]
    /\ pc' = "bnn_propagated"
    /\ UNCHANGED <<args, clients, ps, server, iter, frozen_ts, frozen_zs,
                   curr_clients, idx, tmp_ts, tmp_zs, client_iter, key,
                   calls, turns>>

NextBNN ==
    \/ BNN_Sample
    \/ \E x \in Inputs : BNN_Propagate(x)

SpecBNN == InitBNN /\ [][NextBNN]_vars

-----------------------------------------------------------------------------
(* The minibatch index window of the local loop on its own: any partition  *)
(* size, any batch size the loop can compute for it, local iterations in   *)
(* order.                                                                  *)

InitBatch ==
    /\ pc = "batch"
    /\ \E n \in 1..MaxPartition, b \in 1..MaxPartition :
          /\ args = [num_clients |-> 1, global_iters |-> 1,
                     local_iters |-> MaxWindowIters, batch_size |-> b,
                     server_type |-> "synchronous", client_type |-> "GI_Client"]
          /\ clients = [c \in {0} |-> Client(c, "GI_Client") @@ [n |-> n]]
    /\ ps = build_prior(NumLayers)
    /\ server = NoServer
    /\ iter = 0
    /\ frozen_ts = NoSnapshot
    /\ frozen_zs = EmptyDict
    /\ curr_clients = <<0>>
    /\ idx = 0
    /\ tmp_ts = NoSnapshot
    /\ tmp_zs = EmptyDict
    /\ client_iter = -1
    /\ key = 0
    /\ cache = NoCache
    /\ local = NoLocal
    /\ calls = <<>>
    /\ turns = <<>>

\* for client_iter in range(max_local_iters): inds = ...
Batch_Window ==
    /\ pc \in {"batch", "batch_window"}
    /\ client_iter + 1 < args.local_iters
    /\ client_iter' = client_iter + 1
    /\ LET curr_client == curr_clients[idx + 1]
           client_data_size == clients[curr_client].n
           \* one client: N, the size of the training set, is its size
           batch_size == Min(client_data_size,
                             Min(args.batch_size, client_data_size))
       IN  local' = [client |-> curr_client, batch_size |-> batch_size,
                     inds |-> minibatch_inds(batch_size, client_iter + 1,
                                             client_data_size)]
    /\ pc' = "batch_window"
    /\ UNCHANGED <<args, clients, ps, server, iter, frozen_ts, frozen_zs,
                   curr_clients, idx, tmp_ts, tmp_zs, key, cache, calls,
                   turns>>

NextBatch == Batch_Window

SpecBatch == InitBatch /\ [][NextBatch]_vars

-----------------------------------------------------------------------------
(* A server on its own: any variant, constructed over any number of        *)
(* clients, and any number of calls of next.                               *)

InitServer ==
    /\ pc = "srv"
    /\ \E n \in 1..MaxClients, g \in 0..MaxGlobalIters, st \in ServerTypes,
          type \in ClientTypes :
          /\ args = [num_clients |-> n, global_iters |-> g, local_iters |-> 0,
                     batch_size |-> 1, server_type |-> st,
                     client_type |-> type]
          /\ clients = [c \in 0..(n - 1) |->
                           Client(c, type) @@ [n |-> SplitSize(TrainSize, n, c)]]
          /\ server = ConstructServerOf(st, ClientNames(n), g)
          /\ turns = [c \in 0..(n - 1) |-> 0]
    /\ ps = build_prior(NumLayers)
    /\ iter = -1
    /\ frozen_ts = NoSnapshot
    /\ frozen_zs = EmptyDict
    /\ curr_clients = <<>>
    /\ idx = -1
    /\ tmp_ts = NoSnapshot
    /\ tmp_zs = EmptyDict
    /\ client_iter = -1
    /\ key = 0
    /\ cache = NoCache
    /\ local = NoLocal
    /\ calls = <<>>

\* curr_clients = next(server)
Srv_Next ==
    /\ pc \in {"srv", "srv_next"}
    /\ Len(calls) < MaxCalls
    /\ LET r == Server_next(server)
       IN  /\ server' = r.server
           /\ curr_clients' = r.ret
           /\ calls' = Append(calls, r.ret)
    /\ pc' = "srv_next"
    /\ UNCHANGED <<args, clients, ps, iter, frozen_ts, frozen_zs, idx,
                   tmp_ts, tmp_zs, client_iter, key, cache, local, turns>>

NextServer == Srv_Next

SpecServer == InitServer /\ [][NextServer]_vars

-----------------------------------------------------------------------------
(* The round loop run with a model that estimate_local_vfe does not        *)
(* support: a BaseBNN that is neither a GIBNN nor an MFVI. The script's    *)
(* own calls of model.sample_posterior are the ones of the main loop.      *)

Models == {"GIBNN", "MFVI", "BaseBNN"}

\* if isinstance(model, gi.GIBNN): ... elif isinstance(model, gi.MFVI): ...
\* else: raise NotImplementedError
estimate_local_vfe_dispatch(model) ==
    CASE model = "GIBNN" -> "GIBNN"
      [] model = "MFVI"  -> "MFVI"
      [] OTHER           -> "NotImplementedError"

InitReject ==
    /\ pc = "build_clients"
    /\ args \in [num_clients  : 1..MaxClients,
                 global_iters : 0..MaxGlobalIters,
                 local_iters  : 0..MaxLocalIters,
                 batch_size   : 1..MaxBatchSize,
                 server_type  : ServerTypes,
                 client_type  : ClientTypes,
                 model        : {m \in Models :
                     estimate_local_vfe_dispatch(m) = "NotImplementedError"}]
    /\ clients = <<>>
    /\ ps = EmptyDict
    /\ server = NoServer
    /\ iter = -1
    /\ frozen_ts = NoSnapshot
    /\ frozen_zs = EmptyDict
    /\ curr_clients = <<>>
    /\ idx = -1
    /\ tmp_ts = NoSnapshot
    /\ tmp_zs = EmptyDict
    /\ client_iter = -1
    /\ key = 0
    /\ cache = NoCache
    /\ local = NoLocal
    /\ calls = <<>>
    /\ turns = <<>>

\* the first pass of the local loop: estimate_local_vfe raises before it
\* samples, and the script does not catch the error
LocalStep_Raise ==
    /\ pc = "local"
    /\ client_iter + 1 < args.local_iters
    /\ estimate_local_vfe_dispatch(args.model) = "NotImplementedError"
    /\ client_iter' = client_iter + 1
    /\ local' = [client |-> curr_clients[idx + 1],
                 error  |-> "NotImplementedError"]
    /\ pc' = "raised"
    /\ UNCHANGED <<args, clients, ps, server, iter, frozen_ts, frozen_zs,
                   curr_clients, idx, tmp_ts, tmp_zs, key, cache, calls,
                   turns>>

NextReject ==
    \/ BuildClients
    \/ ConstructServer
    \/ LoopHead
    \/ Collect
    \/ Evaluate
    \/ Schedule
    \/ ClientTurn
    \/ ClientsDone
    \/ LocalStep_Raise
    \/ LocalDone
    \/ PostTraining

SpecReject == InitReject /\ [][NextReject]_vars

-----------------------------------------------------------------------------
(* Properties.                                                             *)

\* a step of main that calls next(server)
NextCalled == pc = "next" /\ pc' = "clients"

\* the client whose local optimization is running
ActiveClient == curr_clients[idx + 1]

\* C1: a call to SequentialServer.__next__ returns the list of exactly the
\* client at the cursor position of the client mapping, moves the cursor to
\* (cursor + 1) mod k and adds exactly 2 to the communication counter.
C1_SequentialNext ==
    [][(NextCalled /\ server.name = "sequential") =>
          /\ Len(curr_clients') = 1
          /\ curr_clients'[1] = server.clients[server.idx + 1]
          /\ server'.idx = (server.idx + 1) % Len(server.clients)
          /\ server'.communications = server.communications + 2]_vars

C1_Witness ==
    /\ pc = "clients"
    /\ server.name = "sequential"
    /\ Len(server.clients) = 3
    /\ Len(calls) = 4
    /\ curr_clients = <<0>>
    /\ server.idx = 1
    /\ server.communications = 8

\* C2: a run with a SequentialServer over k clients for m global iterations
\* makes exactly m*k scheduling calls, returns every client exactly m times,
\* in the order client0, ..., client(k-1), client0, ..., and ends with the
\* communication counter at 2*m*k.
C2_SequentialRun ==
    server.name = "sequential" =>
        LET k == args.num_clients
            m == args.global_iters
        IN  /\ \A i \in 1..Len(calls) : calls[i] = <<(i - 1) % k>>
            /\ pc = "done" =>
                  /\ Len(calls) = m * k
                  /\ \A c \in 0..(k - 1) :
                        Cardinality({i \in 1..Len(calls) : calls[i] = <<c>>}) = m
                  /\ server.communications = 2 * m * k

C2_Witness ==
    /\ pc = "done"
    /\ server.name = "sequential"
    /\ args.num_clients = 3
    /\ args.global_iters = 1
    /\ calls = << <<0>>, <<1>>, <<2>> >>
    /\ server.communications = 6

\* C3: every call to SynchronousServer.__next__ returns all k clients, each
\* once and in mapping order, and adds exactly 2*k to the communication
\* counter.
C3_SynchronousNext ==
    [][(NextCalled /\ server.name = "synchronous") =>
          /\ curr_clients' = ClientNames(args.num_clients)
          /\ server'.communications =
                 server.communications + 2 * args.num_clients]_vars

C3_Witness ==
    /\ pc = "clients"
    /\ server.name = "synchronous"
    /\ args.num_clients = 3
    /\ Len(calls) = 2
    /\ curr_clients = <<0, 1, 2>>
    /\ server.communications = 12

\* C4: each of the first k calls to NewServer.__next__ returns the single
\* client at the cursor, in index order, moves the cursor to (cursor + 1)
\* mod k and adds 2 to the communication counter; every call after the k-th
\* returns all k clients at once.
C4_MixedNext ==
    [][(NextCalled /\ server.name = "seq-sync") =>
          LET k == args.num_clients
              n == Len(calls) + 1
          IN  IF n <= k
              THEN /\ curr_clients' = <<server.clients[server.idx + 1]>>
                   /\ curr_clients' = <<n - 1>>
                   /\ server'.idx = (server.idx + 1) % k
                   /\ server'.communications = server.communications + 2
              ELSE curr_clients' = ClientNames(k)]_vars

C4_Witness ==
    /\ pc = "clients"
    /\ server.name = "seq-sync"
    /\ args.num_clients = 3
    /\ calls = << <<0>>, <<1>>, <<2>>, <<0, 1, 2>>, <<0, 1, 2>> >>

\* C5: in every server variant a call to next raises the communication
\* counter by 2 for every client the call hands out.
C5_CommunicationsPerClient ==
    [][NextCalled =>
          server'.communications =
              server.communications + 2 * Len(curr_clients')]_vars

\* C6: immediately after construction of any server variant the round index,
\* the communication counter and the scheduler's cursors (_idx of the
\* Sequential and Mixed variants, _global_iter of the Mixed variant) are 0
\* and the metrics log is empty.
C6_InitialState ==
    (pc = "loop" /\ iter = -1) =>
        /\ server.curr_iter = 0
        /\ server.communications = 0
        /\ server.log = EmptyDict
        /\ server.name \in {"sequential", "seq-sync"} =>
              ("idx" \in DOMAIN server /\ server.idx = 0)
        /\ server.name = "seq-sync" =>
              ("global_iter" \in DOMAIN server /\ server.global_iter = 0)

C6_Witness ==
    /\ pc = "loop"
    /\ iter = -1
    /\ server.name = "seq-sync"
    /\ args.num_clients = 2

\* C7: when the training loop has finished, the round index curr_iter equals
\* max_iters and exactly max_iters calls to next have been made; no call to
\* next is made once curr_iter has reached max_iters.
C7_TerminalState ==
    /\ pc = "done" =>
          /\ server.curr_iter = server.max_iters
          /\ Len(calls) = server.max_iters
    /\ pc = "next" => server.curr_iter < server.max_iters

\* C8: for the same global iteration count g and client count k the
\* Sequential server has max_iters = g*k and the Synchronous server has
\* max_iters = g, and at the end of a run under either variant every client
\* has had exactly g local-optimization turns.
C8_EqualTurns ==
    server.name \in {"sequential", "synchronous"} =>
        LET k == args.num_clients
            g == args.global_iters
        IN  /\ server.name = "sequential" => server.max_iters = g * k
            /\ server.name = "synchronous" => server.max_iters = g
            /\ pc = "done" => \A c \in 0..(k - 1) : turns[c] = g

C8_Witness ==
    /\ pc = "done"
    /\ server.name = "synchronous"
    /\ args.num_clients = 3
    /\ args.global_iters = 2
    /\ \A c \in 0..2 : turns[c] = 2

\* C9: in the view collect_frozen_vp builds from the collect_vp snapshot for
\* the active client c, every entry of a client other than c is detached and
\* has the parameters of the snapshot entry, and the entry of c at every
\* layer (and c's inducing set, for a GI_Client) is c's own live, attached
\* object.
C9_ViewOfSnapshot ==
    (pc = "local" /\ iter >= 1) =>
        LET c == ActiveClient
        IN  /\ \A l \in Layers :
                  /\ KeySet(tmp_ts[l]) = KeySet(frozen_ts[l])
                  /\ KeySet(tmp_ts[l]) = DOMAIN clients
                  /\ \A o \in KeySet(tmp_ts[l]) \ {c} :
                        /\ ~Get(tmp_ts[l], o).live
                        /\ Get(tmp_ts[l], o).val = Get(frozen_ts[l], o).val
                  /\ Get(tmp_ts[l], c) = LiveT(c, l)
            /\ IsGI(c) =>
                  /\ KeySet(tmp_zs) = KeySet(frozen_zs)
                  /\ Get(tmp_zs, c) = LiveZ(c)
                  /\ \A o \in KeySet(tmp_zs) \ {c} :
                        /\ ~Get(tmp_zs, o).live
                        /\ Get(tmp_zs, o).val = Get(frozen_zs, o).val

C9_Witness ==
    /\ pc = "local"
    /\ iter >= 1
    /\ args.num_clients = 3
    /\ args.client_type = "GI_Client"
    /\ ActiveClient = 1
    /\ client_iter = 0
    /\ Get(tmp_ts[1], 0) = Detached(<<0, 1, 1>>)
    /\ Get(tmp_zs, 0) = Detached(<<0, 0, 1>>)
    /\ Get(tmp_ts[2], 1) = LiveT(1, 2)

\* the entries of a view that are attached to the gradient computation
AttachedOwners ==
    UNION {{tmp_ts[l][i][2].owner : i \in {j \in 1..Len(tmp_ts[l]) :
                                              tmp_ts[l][j][2].live}} : l \in Layers}
    \cup {tmp_zs[i][2].owner : i \in {j \in 1..Len(tmp_zs) : tmp_zs[j][2].live}}

\* C10: at every point of every client's local optimization the view passed
\* to the free-energy estimator has exactly one client, the active one, whose
\* factors and inducing set are attached; every other client's entry is
\* detached.
C10_SingleAttachedClient ==
    pc = "local" =>
        LET c == ActiveClient
        IN  /\ AttachedOwners = {c}
            /\ \A l \in Layers : \A i \in 1..Len(tmp_ts[l]) :
                  tmp_ts[l][i][2].live <=> tmp_ts[l][i][1] = c
            /\ \A l \in Layers : Has(tmp_ts[l], c)
            /\ \A i \in 1..Len(tmp_zs) : tmp_zs[i][2].live <=> tmp_zs[i][1] = c
            /\ IsGI(c) => Has(tmp_zs, c)

C10_Witness ==
    /\ pc = "local"
    /\ server.name = "synchronous"
    /\ iter = 1
    /\ args.num_clients = 3
    /\ args.client_type = "GI_Client"
    /\ ActiveClient = 2
    /\ client_iter = 1
    /\ AttachedOwners = {2}
    /\ Len(tmp_zs) = 3

\* a step of main that runs one local iteration (estimate_local_vfe and
\* the optimizer step)
LocalStepTaken == pc = "local" /\ pc' = "local" /\ client_iter' = client_iter + 1

\* the parameter values the snapshot entries hold
SnapshotValues ==
    [ts |-> [l \in Layers |->
               [i \in 1..Len(frozen_ts[l]) |-> Deref(frozen_ts[l][i][2])]],
     zs |-> [i \in 1..Len(frozen_zs) |-> Deref(frozen_zs[i][2])]]

SnapshotDetached ==
    /\ \A l \in Layers : \A i \in 1..Len(frozen_ts[l]) : ~frozen_ts[l][i][2].live
    /\ \A i \in 1..Len(frozen_zs) : ~frozen_zs[i][2].live

\* C11: the snapshot collect_vp returns holds detached copies only, none of
\* them a client's live object, and a later update of any client's live
\* factor or inducing set leaves every entry of the snapshot unchanged.
C11_FreshSnapshot ==
    [][/\ SnapshotDetached'
       /\ clients' # clients => SnapshotValues' = SnapshotValues]_vars

C11_Witness ==
    /\ pc = "local"
    /\ args.client_type = "GI_Client"
    /\ args.num_clients = 2
    /\ ActiveClient = 1
    /\ client_iter = 1
    /\ Get(frozen_ts[1], 1) = Detached(<<1, 1, 0>>)
    /\ clients[1].t[1] = <<1, 1, 2>>
    /\ Get(frozen_zs, 1) = Detached(<<1, 0, 0>>)
    /\ clients[1].z = <<1, 0, 2>>

\* C13: in the first global round the view handed to a selected client's
\* local optimization holds, at every layer, only that client's own live
\* factor, and only its own inducing set.
C13_FirstRoundView ==
    (pc = "local" /\ iter = 0) =>
        LET c == ActiveClient
        IN  /\ \A l \in Layers : tmp_ts[l] = << <<c, LiveT(c, l)>> >>
            /\ tmp_zs = IF IsGI(c) THEN << <<c, LiveZ(c)>> >> ELSE EmptyDict

C13_Witness ==
    /\ pc = "local"
    /\ iter = 0
    /\ server.name = "synchronous"
    /\ args.num_clients = 3
    /\ args.client_type = "GI_Client"
    /\ ActiveClient = 1
    /\ client_iter = 0
    /\ Len(frozen_ts[1]) = 3
    /\ clients[0].t[1] # InitValue(0, 1)
    /\ Len(tmp_ts[1]) = 1

\* C14: a gradient step of the local optimization of client c changes c's
\* own factors (and inducing set) only: the live parameters of every other
\* client and the priors are unchanged by the step.
C14_StepFrame ==
    [][LocalStepTaken =>
          /\ \A o \in DOMAIN clients \ {ActiveClient} : clients'[o] = clients[o]
          /\ DOMAIN clients' = DOMAIN clients
          /\ clients'[ActiveClient] = GradStep(clients[ActiveClient])
          /\ ps' = ps]_vars

C14_Witness ==
    /\ pc = "local"
    /\ args.num_clients = 3
    /\ ActiveClient = 1
    /\ client_iter = 1
    /\ clients[1].t[2] = <<1, 2, 2>>
    /\ clients[0].t[2] = <<0, 2, 2>>
    /\ clients[2].t[2] = <<2, 2, 0>>
    /\ ps = build_prior(NumLayers)

\* C12: collect_frozen_vp called for a client that is not a key of the
\* frozen snapshot fails and returns no view: a view is only ever returned
\* for a client the snapshot holds.
C12_UnknownClientRejected ==
    pc = "vp_view" => \A l \in Layers : Has(frozen_ts[l], ActiveClient)

\* C15: in GIBNN.sample_posterior every client's factor of a layer is
\* evaluated at that same client's inducing inputs, propagated through the
\* layers sampled before, and multiplied into the layer posterior that
\* started as the prior.
C15_OwnInducingInputs ==
    args.client_type = "GI_Client" =>
        \A i \in 1..Len(cache) :
            LET q == cache[i][2].w.q
            IN  /\ q.prior = Prior(cache[i][1]).prior
                /\ \A j \in 1..Len(q.factors) :
                      /\ q.factors[j].at.client = q.factors[j].t[1]
                      /\ q.factors[j].at.depth = i - 1

\* the output obtained by chaining the cached weights by hand: the weights
\* of the layers in cache order, the nonlinearity between two layers
ManualChain(c) ==
    [j \in 1..(2 * Len(c) - 1) |->
        IF j % 2 = 1
        THEN [op |-> "mm", layer |-> c[(j + 1) \div 2][1],
              w |-> c[(j + 1) \div 2][2].w.key]
        ELSE [op |-> "nonlinearity", layer |-> c[j \div 2][1], w |-> -1]]

\* C16: propagate(x) applies exactly the weights the most recent
\* sample_posterior call cached, in cache order, with the nonlinearity after
\* every layer but the last; it draws no sample and leaves the cache as it
\* is, so all propagate calls between two sample_posterior calls use the
\* same weights.
C16_PropagateUsesCache ==
    [][pc' = "bnn_propagated" =>
          /\ cache' = cache
          /\ key' = key
          /\ local'.out.ops = ManualChain(cache)
          /\ Len(local'.out.ops) = 2 * NumLayers - 1
          /\ \A l \in Layers :
                local'.out.ops[2 * l - 1].w = key - NumLayers + l - 1]_vars

C16_Witness ==
    /\ pc = "bnn_propagated"
    /\ key = 2 * NumLayers
    /\ local.out.x = "x_test"
    /\ local.out.ops[1] = [op |-> "mm", layer |-> 1, w |-> NumLayers]
    /\ local.out.ops[2] = [op |-> "nonlinearity", layer |-> 1, w |-> -1]

C18_PriorsImmutable ==
    pc # "build_clients" =>
        /\ ps = build_prior(NumLayers)
        /\ \A i \in 1..Len(cache) :
              /\ cache[i][2].w.q.prior = Prior(cache[i][1]).prior
              /\ cache[i][2].kl.p = Prior(cache[i][1])

C18_Witness ==
    /\ pc = "local"
    /\ client_iter = 1
    /\ iter = 1
    /\ args.num_clients = 3
    /\ ps = build_prior(NumLayers)
    /\ Len(cache) = NumLayers
    /\ Len(cache[1][2].w.q.factors) = 3
    /\ cache[NumLayers][2].kl.p = Prior(NumLayers)

\* C19: every local step's free energy is the expected log-likelihood, not
\* rescaled, minus the total KL of the step's own sample divided by the
\* active client's whole local data size, whatever the minibatch size and
\* the size of the global training set.
C19_LocalFreeEnergy ==
    [][LocalStepTaken =>
          /\ local'.elbo.ell = local'.exp_ll
          /\ local'.elbo.ell_num = 1
          /\ local'.elbo.ell_den = 1
          /\ local'.elbo.kl = local'.kl
          /\ local'.elbo.kl_den = clients[ActiveClient].n
          /\ local'.kl = get_total_kl(cache')
          /\ local'.exp_ll.out = local'.out
          /\ local'.exp_ll.y.inds = local'.inds]_vars

C19_Witness ==
    /\ pc = "local"
    /\ local.client = 0
    /\ args.num_clients = 2
    /\ local.batch_size = 2
    /\ local.elbo.kl_den = 3
    /\ local.elbo.ell_den = 1
    /\ Len(local.elbo.kl) = NumLayers

\* C20: the index window of local iteration i over a partition of size n
\* with batch size b has b entries, starts at (b * i) mod n and continues
\* with consecutive indices, wrapping from n - 1 to 0; for n = 7 and b = 3
\* the iterations 0, 1, 2, 3 give [0,1,2], [3,4,5], [6,0,1], [2,3,4].
C20_MinibatchWindow ==
    pc = "batch_window" =>
        LET n == clients[0].n
            b == local.batch_size
            i == client_iter
            w == local.inds
        IN  /\ b = Min(n, args.batch_size)
            /\ Len(w) = b
            /\ w[1] = (b * i) % n
            /\ \A j \in 1..(b - 1) :
                  w[j + 1] = IF w[j] = n - 1 THEN 0 ELSE w[j] + 1
            /\ (n = 7 /\ b = 3 /\ i = 0) => w = <<0, 1, 2>>
            /\ (n = 7 /\ b = 3 /\ i = 1) => w = <<3, 4, 5>>
            /\ (n = 7 /\ b = 3 /\ i = 2) => w = <<6, 0, 1>>
            /\ (n = 7 /\ b = 3 /\ i = 3) => w = <<2, 3, 4>>

C20_Witness ==
    /\ pc = "batch_window"
    /\ clients[0].n = 7
    /\ local.batch_size = 3
    /\ client_iter = 3
    /\ local.inds = <<2, 3, 4>>

RECURSIVE StepsTaken(_)
StepsTaken(n) ==
    IF n = 0 THEN 0 ELSE clients[n - 1].t[1][3] + StepsTaken(n - 1)

\* number of evaluations logged so far
Evaluations ==
    IF Has(server.log, "iteration") THEN Len(Get(server.log, "iteration"))
    ELSE 0

\* the position main moves to from the current state
NextPc ==
    CASE pc = "build_clients"    -> "construct_server"
      [] pc = "construct_server" -> "loop"
      [] pc = "loop"     -> IF iter + 1 < server.max_iters
                            THEN "collect" ELSE "done"
      [] pc = "collect"  -> "evaluate"
      [] pc = "evaluate" -> "next"
      [] pc = "next"     -> "clients"
      [] pc = "clients"  -> IF idx + 1 < Len(curr_clients)
                            THEN "local" ELSE "loop"
      [] pc = "local"    -> IF client_iter + 1 < args.local_iters
                            THEN "local" ELSE "clients"
      [] OTHER           -> pc

LogColumns ==
    {"communications", "iteration", "train_mll", "train_error", "test_mll",
     "test_error"}

\* length of a column of the log, 0 when the column does not exist yet
ColumnLen(log, col) == IF Has(log, col) THEN Len(Get(log, col)) ELSE 0

\* number of calls of server.evaluate_performance() main has made
EvaluateCalls ==
    CASE pc \in {"build_clients", "construct_server"} -> 0
      [] pc \in {"collect", "evaluate"} -> iter
      [] pc = "done" -> iter + 2
      [] OTHER -> iter + 1

\* a step of main that calls server.evaluate_performance()
EvaluateCalled == (pc = "evaluate" /\ pc' = "next") \/ (pc = "loop" /\ pc' = "done")

\* C23: a call of evaluate_performance appends exactly one value to every
\* column of the log and keeps the values logged before; no other step
\* touches the log; so all columns have the same length, the number of
\* evaluations made.
C23_LogColumns ==
    [][pc \notin {"build_clients", "construct_server"} =>
          /\ EvaluateCalled =>
                /\ KeySet(server'.log) = LogColumns
                /\ \A col \in LogColumns :
                      /\ ColumnLen(server'.log, col)
                             = ColumnLen(server.log, col) + 1
                      /\ \A i \in 1..ColumnLen(server.log, col) :
                            Get(server'.log, col)[i] = Get(server.log, col)[i]
          /\ ~EvaluateCalled => server'.log = server.log
          /\ \A col \in LogColumns :
                ColumnLen(server'.log, col) = EvaluateCalls']_vars

C23_Witness ==
    /\ pc = "next"
    /\ iter = 1
    /\ KeySet(server.log) = LogColumns
    /\ \A col \in LogColumns : Len(Get(server.log, col)) = 2
    /\ Get(server.log, "iteration") = <<0, 1>>

\* number of the scheduling calls before the last one that handed out c
TurnsBefore(c) ==
    Cardinality({i \in 1..(Len(calls) - 1) :
                    \E j \in 1..Len(calls[i]) : calls[i][j] = c})

\* number of optimizer steps client c has taken
StepsOf(c) == clients[c].t[1][3]

\* C24: client updates are serialized: a step updates the factors of at
\* most one client, the active one; and while a round's clients are being
\* served, every client before the active one in the list has finished all
\* its local iterations of the round, the active one is in the middle of
\* its own and every client after it has not started.
C24_Serialized ==
    [][/\ \A c \in DOMAIN clients :
             clients'[c] # clients[c] =>
                 (LocalStepTaken /\ c = ActiveClient)
       /\ pc' \in {"local", "clients"} =>
             \A j \in 1..Len(curr_clients'), c \in DOMAIN clients :
                 c = curr_clients'[j] =>
                     LET L == args.local_iters
                     IN  /\ j < idx' + 1 =>
                               /\ turns'[c] = TurnsBefore(c)' + 1
                               /\ StepsOf(c)' = L * turns'[c]
                         /\ (j = idx' + 1 /\ pc' = "local") =>
                               /\ turns'[c] = TurnsBefore(c)' + 1
                               /\ StepsOf(c)' = L * TurnsBefore(c)'
                                                  + client_iter' + 1
                         /\ (j = idx' + 1 /\ pc' = "clients") =>
                               /\ turns'[c] = TurnsBefore(c)' + 1
                               /\ StepsOf(c)' = L * turns'[c]
                         /\ j > idx' + 1 =>
                               /\ turns'[c] = TurnsBefore(c)'
                               /\ StepsOf(c)' = L * turns'[c]]_vars

C24_Witness ==
    /\ pc = "local"
    /\ server.name = "synchronous"
    /\ args.num_clients = 3
    /\ args.local_iters = 2
    /\ iter = 1
    /\ idx = 1
    /\ client_iter = 0
    /\ StepsOf(0) = 4
    /\ StepsOf(1) = 3
    /\ StepsOf(2) = 2

\* C25: the Mixed server's max_iters is 2*k - 1 for k clients whatever
\* iteration count is configured, and a complete run makes exactly 2*k - 1
\* scheduling calls: k individual turns, client0 to client(k-1), followed by
\* k - 1 joint rounds of all clients.
C25_MixedRun ==
    (pc \notin {"build_clients", "construct_server"}
        /\ server.name = "seq-sync") =>
        LET k == args.num_clients
        IN  /\ server.max_iters = 2 * k - 1
            /\ Len(calls) <= 2 * k - 1
            /\ \A i \in 1..Len(calls) :
                  calls[i] = IF i <= k THEN <<i - 1>> ELSE ClientNames(k)
            /\ pc = "done" => Len(calls) = 2 * k - 1

C25_Witness ==
    /\ pc = "done"
    /\ server.name = "seq-sync"
    /\ args.num_clients = 3
    /\ args.global_iters = 0
    /\ server.max_iters = 5
    /\ calls = << <<0>>, <<1>>, <<2>>, <<0, 1, 2>>, <<0, 1, 2>> >>

\* some call of next so far has returned all clients
JointReached == \E i \in 1..Len(calls) : calls[i] = server.clients

\* C26: the joint state of the Mixed server is absorbing: once a call of
\* next has returned all clients, the cursor is 0 and the turn counter is k,
\* and every later call returns all clients again and leaves both, and the
\* rest of the server, as they are.
C26_JointAbsorbing ==
    [][(server.name = "seq-sync" /\ JointReached) =>
          /\ server.idx = 0
          /\ server.global_iter = Len(server.clients)
          /\ curr_clients' = server.clients
          /\ server'.idx = server.idx
          /\ server'.global_iter = server.global_iter
          /\ server' = server]_vars

C26_Witness ==
    /\ pc = "srv_next"
    /\ server.name = "seq-sync"
    /\ Len(server.clients) = 2
    /\ calls = << <<0>>, <<1>>, <<0, 1>>, <<0, 1>>, <<0, 1>> >>
    /\ server.idx = 0
    /\ server.global_iter = 2

\* C27: for the Sequential server over k clients, after n calls of next the
\* cursor is n mod k, within 0..k-1, and the communication counter is 2*n;
\* a call changes the cursor and the communication counter only.
C27_SequentialCounters ==
    [][server.name = "sequential" =>
          LET k == Len(server.clients)
              n == Len(calls')
          IN  /\ k >= 1
              /\ n = Len(calls) + 1
              /\ server'.idx \in 0..(k - 1)
              /\ server'.idx = n % k
              /\ server'.communications = 2 * n
              /\ DOMAIN server' = DOMAIN server
              /\ \A f \in DOMAIN server \ {"idx", "communications"} :
                    server'[f] = server[f]]_vars

C27_Witness ==
    /\ pc = "srv_next"
    /\ server.name = "sequential"
    /\ Len(server.clients) = 3
    /\ Len(calls) = 7
    /\ server.idx = 1
    /\ server.communications = 14
    /\ server.curr_iter = 0
    /\ server.log = EmptyDict

\* a step of main that builds the view of a client with collect_frozen_vp
ViewBuilt == pc = "clients" /\ pc' = "local" /\ iter >= 1

\* C28: collect_frozen_vp leaves its inputs alone: the call changes neither
\* the frozen snapshot nor a client's factors, so every client of a round
\* gets its view from the same snapshot; and the view of a client the
\* snapshot holds has the snapshot's layers and, per layer, the snapshot's
\* clients.
C28_ExcludingFrame ==
    [][ViewBuilt =>
          /\ frozen_ts' = frozen_ts
          /\ frozen_zs' = frozen_zs
          /\ clients' = clients
          /\ DOMAIN tmp_ts' = DOMAIN frozen_ts
          /\ \A l \in Layers :
                Has(frozen_ts[l], ActiveClient') =>
                    Keys(tmp_ts'[l]) = Keys(frozen_ts[l])
          /\ (IsGI(ActiveClient') /\ Has(frozen_zs, ActiveClient')) =>
                /\ KeySet(tmp_zs') = KeySet(frozen_zs)
                /\ Len(tmp_zs') = Len(frozen_zs)]_vars

C28_Witness ==
    /\ pc = "local"
    /\ client_iter = -1
    /\ server.name = "synchronous"
    /\ args.num_clients = 3
    /\ iter = 1
    /\ idx = 2
    /\ Keys(tmp_ts[1]) = <<0, 1, 2>>
    /\ Keys(frozen_ts[1]) = <<0, 1, 2>>
    /\ Get(frozen_ts[1], 0).val = <<0, 1, args.local_iters>>

\* C29: the snapshot of a round holds, for every client, the value its
\* factor had when the round started, which is the value at the end of the
\* round before; a client's view of another client is that value. Under the
\* Sequential server it is the other client's current value, so every
\* earlier update is seen; in a Synchronous round it stays the start-of-round
\* value although a client served earlier in the round has moved on.
C29_SnapshotOfLastRound ==
    /\ pc = "evaluate" =>
          \A l \in Layers, o \in DOMAIN clients :
              Get(frozen_ts[l], o).val = clients[o].t[l]
    /\ (pc = "local" /\ iter >= 1) =>
          \A l \in Layers, o \in DOMAIN clients :
              LET L == args.local_iters
              IN  /\ Get(frozen_ts[l], o).val = <<o, l, L * TurnsBefore(o)>>
                  /\ o # ActiveClient =>
                        /\ Get(tmp_ts[l], o).val = Get(frozen_ts[l], o).val
                        /\ server.name = "sequential" =>
                              Get(tmp_ts[l], o).val = clients[o].t[l]
                        /\ server.name = "synchronous" =>
                              /\ Get(tmp_ts[l], o).val = <<o, l, L * iter>>
                              /\ clients[o].t[l] =
                                    IF \E j \in 1..idx : curr_clients[j] = o
                                    THEN <<o, l, L * (iter + 1)>>
                                    ELSE <<o, l, L * iter>>

C29_Witness ==
    /\ pc = "local"
    /\ server.name = "synchronous"
    /\ args.num_clients = 3
    /\ args.local_iters = 2
    /\ iter = 1
    /\ idx = 2
    /\ client_iter = 0
    /\ clients[0].t[1] = <<0, 1, 4>>
    /\ Get(tmp_ts[1], 0).val = <<0, 1, 2>>
    /\ Get(frozen_ts[1], 1).val = <<1, 1, 2>>

\* the server after i calls of next
RECURSIVE AfterCalls(_, _)
AfterCalls(s, i) ==
    IF i = 0 THEN s ELSE AfterCalls(Server_next(s).server, i - 1)

\* C30: a complete run logs max_iters + 1 evaluations, one before the
\* scheduling call of every round and one after the last round: the logged
\* iteration column is 0, 1, ..., max_iters, the first logged communications
\* value is 0 and the i-th one is the counter after i scheduling calls.
C30_EvaluationPerRound ==
    /\ pc = "next" => ColumnLen(server.log, "iteration") = Len(calls) + 1
    /\ pc = "done" =>
          LET its == Get(server.log, "iteration")
              cms == Get(server.log, "communications")
              s0  == ConstructServerOf(args.server_type,
                                       ClientNames(args.num_clients),
                                       args.global_iters)
          IN  /\ Len(its) = server.max_iters + 1
              /\ Len(cms) = server.max_iters + 1
              /\ \A i \in 1..Len(its) : its[i] = i - 1
              /\ cms[1] = 0
              /\ \A i \in 1..Len(cms) :
                    cms[i] = AfterCalls(s0, i - 1).communications

====
